---- MODULE Spec2Model ----
(***************************************************************************)
(* Model of openapi3.T, the root of an OpenAPI v3 document                 *)
(* (src/openapi3/openapi3.go): UnmarshalJSON, WithMinorOpenAPIVersion,      *)
(* AddOperation, AddServer and Validate.                                    *)
(*                                                                         *)
(* Pointers to Operation and Server objects are identifiers into the       *)
(* stamp maps opStamp and srvStamp (0 is the nil pointer), so that the     *)
(* same object attached twice is one object.  A nilable field is a record  *)
(* with a `present` flag: a Go nil slice, nil map or nil pointer has       *)
(* present = FALSE, an empty collection has present = TRUE and no items.   *)
(* An error is the sequence of its message layers, outermost first; the    *)
(* nil error is the empty sequence.                                        *)
(***************************************************************************)
EXTENDS Integers, Sequences, FiniteSets, TLC

VARIABLES doc, opStamp, srvStamp, call, calls, pc, result, checked, ctxDone

vars == <<doc, opStamp, srvStamp, call, calls, pc, result, checked, ctxDone>>

\* ---------------------------------------------------------------- bounds
MaxMinor == 1
NumOps == 2
NumServers == 2
MaxServers == 2
MaxCalls == 4

Minors == 0..MaxMinor
OpIds == 1..NumOps
SrvIds == 1..NumServers
PathNames == {"/a", "/b"}
Methods == {"GET", "POST"}

\* ------------------------------------------------------ the document graph
NoOps == [m \in Methods |-> 0]
NoItems == [p \in {} |-> 0]

AbsentInfo == [present |-> FALSE, title |-> "", stamp |-> 0]
AbsentPaths == [present |-> FALSE, items |-> NoItems]
AbsentList == [present |-> FALSE, items |-> <<>>]
AbsentDocs == [present |-> FALSE, entries |-> <<>>, stamp |-> 0]

\* The zero value of T: what &T{} holds.
ZeroDoc ==
  [ OpenAPI |-> <<>>,
    Components |-> [items |-> <<>>, stamp |-> 0],
    Info |-> AbsentInfo,
    Paths |-> AbsentPaths,
    Security |-> AbsentList,
    Servers |-> AbsentList,
    Tags |-> AbsentList,
    ExternalDocs |-> AbsentDocs,
    specMinorVersion |-> 0 ]

\* A format-version string is the sequence of its dot-separated numbers:
\* "" is <<>>, "3.0.3" is <<3, 0, 3>>.
VersionStrings == {<<>>, <<3, 0, 3>>, <<3, 1, 0>>, <<2, 0>>}

\* Version.Minor: the second number of the version string, 0 without one.
Minor(version) == IF Len(version) >= 2 THEN version[2] ELSE 0

\* Leaf attributes of the Operation and Server objects that their own
\* validators look at: operation 1 has no responses, server 1 has no url.
OperationHasResponses == [o \in OpIds |-> o # 1]
ServerHasURL == [s \in SrvIds |-> s # 1]

\* ------------------------------------------------------- child validators
NoError == <<>>

VersionValidate(version) ==
  IF Len(version) = 3 /\ version[1] = 3 /\ version[2] \in {0, 1}
  THEN NoError ELSE <<"unrecognized version">>

RECURSIVE FirstBad(_, _)
\* Index of the first FALSE of a sequence of flags at or after i, 0 if none.
FirstBad(flags, i) ==
  IF i > Len(flags) THEN 0
  ELSE IF ~flags[i] THEN i ELSE FirstBad(flags, i + 1)

ComponentsValidate(components) ==
  IF FirstBad(components.items, 1) = 0 THEN NoError
  ELSE <<"invalid schema", "unsupported type">>

InfoValidate(info) ==
  IF info.title = "" THEN <<"value of title must be a non-empty string">>
  ELSE NoError

PathsValidate(paths) ==
  IF \E p \in DOMAIN paths.items : \E m \in Methods :
       /\ paths.items[p].ops[m] # 0
       /\ ~OperationHasResponses[paths.items[p].ops[m]]
  THEN <<"invalid operation", "value of responses must be an object">>
  ELSE NoError

SecurityValidate(security) ==
  IF FirstBad(security.items, 1) = 0 THEN NoError
  ELSE <<"invalid security requirement">>

ServersValidate(servers) ==
  IF FirstBad([i \in 1..Len(servers.items) |-> ServerHasURL[servers.items[i]]], 1) = 0
  THEN NoError ELSE <<"value of url must be a non-empty string">>

TagsValidate(tags) ==
  IF FirstBad([i \in 1..Len(tags.items) |-> tags.items[i].ok], 1) = 0
  THEN NoError ELSE <<"invalid tag">>

ExternalDocsValidate(docs) ==
  IF FirstBad(docs.entries, 1) = 0 THEN NoError
  ELSE <<"invalid external docs entry">>

\* ------------------------------------------------------------- T.Validate
\* Mutant of Wrap: fmt.Errorf with %v of a constant, the cause is lost.
WrapDropCause(label, e) == <<label>>

\* fmt.Errorf("<label>: %w", e): one attribution layer around the cause.
Wrap(label, e) == <<label>> \o e

CheckOpenAPI(d) ==
  IF d.OpenAPI = <<>>
  THEN Wrap("invalid openapi value", <<"must be a non-empty string">>)
  ELSE IF VersionValidate(d.OpenAPI) # NoError
       THEN Wrap("invalid openapi value", VersionValidate(d.OpenAPI))
       ELSE NoError

CheckComponents(d) ==
  IF ComponentsValidate(d.Components) # NoError
  THEN Wrap("invalid components", ComponentsValidate(d.Components))
  ELSE NoError

CheckInfo(d) ==
  IF d.Info.present
  THEN IF InfoValidate(d.Info) # NoError
       THEN Wrap("invalid info", InfoValidate(d.Info))
       ELSE NoError
  ELSE Wrap("invalid info", <<"must be an object">>)

\* Mutant of CheckPaths: len(doc.Paths) == 0 tested in place of nil.
CheckPathsNonEmpty(d) ==
  IF d.Paths.present /\ DOMAIN d.Paths.items # {}
  THEN IF PathsValidate(d.Paths) # NoError
       THEN Wrap("invalid paths", PathsValidate(d.Paths))
       ELSE NoError
  ELSE Wrap("invalid paths", <<"must be an object">>)

CheckPaths(d) ==
  IF d.Paths.present
  THEN IF PathsValidate(d.Paths) # NoError
       THEN Wrap("invalid paths", PathsValidate(d.Paths))
       ELSE NoError
  ELSE Wrap("invalid paths", <<"must be an object">>)

\* Mutant of CheckSecurity: security given the else branch of a required field.
CheckSecurityRequired(d) ==
  IF d.Security.present
  THEN IF SecurityValidate(d.Security) # NoError
       THEN Wrap("invalid security", SecurityValidate(d.Security))
       ELSE NoError
  ELSE Wrap("invalid security", <<"must be an object">>)

CheckSecurity(d) ==
  IF d.Security.present /\ SecurityValidate(d.Security) # NoError
  THEN Wrap("invalid security", SecurityValidate(d.Security))
  ELSE NoError

CheckServers(d) ==
  IF d.Servers.present /\ ServersValidate(d.Servers) # NoError
  THEN Wrap("invalid servers", ServersValidate(d.Servers))
  ELSE NoError

CheckTags(d) ==
  IF d.Tags.present /\ TagsValidate(d.Tags) # NoError
  THEN Wrap("invalid tags", TagsValidate(d.Tags))
  ELSE NoError

CheckExternalDocs(d) ==
  IF d.ExternalDocs.present /\ ExternalDocsValidate(d.ExternalDocs) # NoError
  THEN Wrap("invalid external docs", ExternalDocsValidate(d.ExternalDocs))
  ELSE NoError

\* Mutant of NextStep: the paths block placed before the info block.
NextStepPathsFirst(step) ==
  CASE step = "openapi" -> "components"
    [] step = "components" -> "paths"
    [] step = "paths" -> "info"
    [] step = "info" -> "security"
    [] step = "security" -> "servers"
    [] step = "servers" -> "tags"
    [] step = "tags" -> "externalDocs"
    [] step = "externalDocs" -> "done"

\* The statement order of Validate: the step that follows each step.
NextStep(step) ==
  CASE step = "openapi" -> "components"
    [] step = "components" -> "info"
    [] step = "info" -> "paths"
    [] step = "paths" -> "security"
    [] step = "security" -> "servers"
    [] step = "servers" -> "tags"
    [] step = "tags" -> "externalDocs"
    [] step = "externalDocs" -> "done"

\* One top-level step of Validate: `return wrap(err)` on a failure, fall
\* through to the next statement (or to `return nil`) otherwise.  ctx is
\* handed to the child validators and never inspected by Validate itself.
Step(step, err) ==
  /\ pc = step
  /\ checked' = Append(checked, step)
  /\ IF err # NoError
     THEN pc' = "done" /\ result' = err
     ELSE pc' = NextStep(step) /\ result' = NoError
  /\ UNCHANGED <<doc, opStamp, srvStamp, call, calls, ctxDone>>

ValidateOpenAPI == Step("openapi", CheckOpenAPI(doc))
ValidateComponents == Step("components", CheckComponents(doc))
ValidateInfo == Step("info", CheckInfo(doc))
ValidatePaths == Step("paths", CheckPaths(doc))
ValidateSecurity == Step("security", CheckSecurity(doc))
ValidateServers == Step("servers", CheckServers(doc))
ValidateTags == Step("tags", CheckTags(doc))
ValidateExternalDocs == Step("externalDocs", CheckExternalDocs(doc))

\* The caller cancels the context it passed to Validate while the call runs.
Cancel ==
  /\ pc \notin {"idle", "done"}
  /\ ~ctxDone
  /\ ctxDone' = TRUE
  /\ UNCHANGED <<doc, opStamp, srvStamp, call, calls, pc, result, checked>>

\* The documents Validate is called on.
FlagLists == {<<>>, <<FALSE>>, <<TRUE>>}
ValidateDocs ==
  { [ZeroDoc EXCEPT
       !.OpenAPI = v, !.Components.items = c, !.Info = i, !.Paths = p,
       !.Security = s, !.Servers = sv, !.Tags = t, !.ExternalDocs = e] :
      v \in VersionStrings,
      c \in FlagLists,
      i \in {AbsentInfo} \cup
            {[present |-> TRUE, title |-> tt, stamp |-> 0] : tt \in {"", "api"}},
      p \in {AbsentPaths, [present |-> TRUE, items |-> NoItems]} \cup
            {[present |-> TRUE,
              items |-> [q \in {"/a"} |-> [stamp |-> 0, ops |-> [NoOps EXCEPT !["GET"] = o]]]] :
               o \in OpIds},
      s \in {AbsentList} \cup {[present |-> TRUE, items |-> f] : f \in {<<>>, <<FALSE>>}},
      sv \in {AbsentList} \cup
             {[present |-> TRUE, items |-> f] : f \in {<<>>} \cup {<<x>> : x \in SrvIds}},
      t \in {AbsentList} \cup
            {[present |-> TRUE, items |-> f] :
               f \in {<<>>} \cup {<<[ok |-> b, stamp |-> 0]>> : b \in BOOLEAN}},
      e \in {AbsentDocs} \cup
            {[present |-> TRUE, entries |-> f, stamp |-> 0] : f \in {<<>>, <<FALSE>>}} }

InitValidate ==
  /\ doc \in ValidateDocs
  /\ opStamp = [o \in OpIds |-> 0]
  /\ srvStamp = [s \in SrvIds |-> 0]
  /\ call = <<"Validate">>
  /\ calls = 1
  /\ pc = "openapi"
  /\ result = NoError
  /\ checked = <<>>
  /\ ctxDone \in BOOLEAN

NextValidate ==
  \/ ValidateOpenAPI
  \/ ValidateComponents
  \/ ValidateInfo
  \/ ValidatePaths
  \/ ValidateSecurity
  \/ ValidateServers
  \/ ValidateTags
  \/ ValidateExternalDocs
  \/ Cancel

SpecValidate == InitValidate /\ [][NextValidate]_vars

\* -------------------------------------------- children's version stamping
\* Each child's WithMinorOpenAPIVersion stores the version on the node and
\* hands it to the nodes below; a nil receiver is left alone.
ComponentsWithMinor(components, v) == [components EXCEPT !.stamp = v]

InfoWithMinor(info, v) ==
  IF info.present THEN [info EXCEPT !.stamp = v] ELSE info

PathsWithMinor(paths, v) ==
  [paths EXCEPT !.items =
     [q \in DOMAIN paths.items |-> [paths.items[q] EXCEPT !.stamp = v]]]

\* A security requirement is a map of scheme names: it holds no stamp.
SecurityWithMinor(security, v) == security

TagsWithMinor(tags, v) ==
  [tags EXCEPT !.items =
     [i \in 1..Len(tags.items) |-> [tags.items[i] EXCEPT !.stamp = v]]]

ExternalDocsWithMinor(docs, v) ==
  IF docs.present THEN [docs EXCEPT !.stamp = v] ELSE docs

\* The Operation objects reachable from a path collection.
AttachedOps(paths) ==
  {paths.items[q].ops[m] : q \in DOMAIN paths.items, m \in Methods} \ {0}

\* The Server objects of a server list.
AttachedServers(servers) == {servers.items[i] : i \in 1..Len(servers.items)}

\* PathItem.WithMinorOpenAPIVersion reaching the Operation objects.
OperationsWithMinor(stamps, paths, v) ==
  [o \in OpIds |-> IF o \in AttachedOps(paths) THEN v ELSE stamps[o]]

\* Servers.WithMinorOpenAPIVersion reaching the Server objects.
ServersWithMinor(stamps, servers, v) ==
  [s \in SrvIds |-> IF s \in AttachedServers(servers) THEN v ELSE stamps[s]]

\* PathItem.SetOperation: the operation takes the method's slot.
SetOperation(pathItem, method, operation) ==
  [pathItem EXCEPT !.ops[method] = operation]

\* ---------------------------------------------- T.WithMinorOpenAPIVersion
\* Mutant of StampDocument: the doc.Paths line left out.
StampDocumentNoPaths(d, v) ==
  [d EXCEPT
     !.specMinorVersion = v,
     !.Components = ComponentsWithMinor(d.Components, v),
     !.Info = InfoWithMinor(d.Info, v),
     !.Security = SecurityWithMinor(d.Security, v),
     !.Tags = TagsWithMinor(d.Tags, v),
     !.ExternalDocs = ExternalDocsWithMinor(d.ExternalDocs, v)]

\* The fields of *doc after the body of `if doc != nil`.
StampDocument(d, v) ==
  [d EXCEPT
     !.specMinorVersion = v,
     !.Components = ComponentsWithMinor(d.Components, v),
     !.Info = InfoWithMinor(d.Info, v),
     !.Paths = PathsWithMinor(d.Paths, v),
     !.Security = SecurityWithMinor(d.Security, v),
     !.Tags = TagsWithMinor(d.Tags, v),
     !.ExternalDocs = ExternalDocsWithMinor(d.ExternalDocs, v)]

\* recv is the receiver: "doc" for the document, "nil" for a nil *T.
WithMinorOpenAPIVersion(recv, v) ==
  /\ pc = "idle"
  /\ calls < MaxCalls
  /\ calls' = calls + 1
  /\ IF recv # "nil"
     THEN /\ doc' = StampDocument(doc, v)
          /\ opStamp' = OperationsWithMinor(opStamp, doc.Paths, v)
          /\ srvStamp' = ServersWithMinor(srvStamp, doc.Servers, v)
     ELSE UNCHANGED <<doc, opStamp, srvStamp>>
  /\ call' = <<"WithMinorOpenAPIVersion", recv, v, recv>>
  /\ UNCHANGED <<pc, result, checked, ctxDone>>

\* ------------------------------------------------------- T.AddOperation
EmptyPaths == [present |-> TRUE, items |-> NoItems]
NewPathItem == [stamp |-> 0, ops |-> NoOps]

\* Mutant of PathsAfterAdd: the `if pathItem == nil` test left out, a new
\* path item replaces the one already there.
PathsAfterAddFreshItem(d, path, method, operation) ==
  LET paths == IF d.Paths.present THEN d.Paths ELSE EmptyPaths
  IN [present |-> TRUE,
      items |-> [q \in DOMAIN paths.items \cup {path} |->
                   IF q = path THEN SetOperation(NewPathItem, method, operation)
                   ELSE paths.items[q]]]

\* doc.Paths after AddOperation.
PathsAfterAdd(d, path, method, operation) ==
  LET paths == IF d.Paths.present THEN d.Paths ELSE EmptyPaths
      pathItem == IF path \in DOMAIN paths.items THEN paths.items[path] ELSE NewPathItem
  IN [present |-> TRUE,
      items |-> [q \in DOMAIN paths.items \cup {path} |->
                   IF q = path THEN SetOperation(pathItem, method, operation)
                   ELSE paths.items[q]]]

\* The operation the slot held before the call, 0 for none.
SlotBefore(d, path, method) ==
  IF d.Paths.present /\ path \in DOMAIN d.Paths.items
  THEN d.Paths.items[path].ops[method] ELSE 0

AddOperation(path, method, operation) ==
  /\ pc = "idle"
  /\ calls < MaxCalls
  /\ calls' = calls + 1
  /\ doc' = [doc EXCEPT !.Paths = PathsAfterAdd(doc, path, method, operation)]
  /\ opStamp' = IF operation # 0
                THEN [opStamp EXCEPT ![operation] = doc.specMinorVersion]
                ELSE opStamp
  /\ call' = <<"AddOperation", path, method, operation, SlotBefore(doc, path, method)>>
  /\ UNCHANGED <<srvStamp, pc, result, checked, ctxDone>>

\* ---------------------------------------------------------- T.AddServer
\* Mutant of AppendServer: a server already in the list is not added again.
AppendServerUnique(servers, server) ==
  IF \E i \in 1..Len(servers.items) : servers.items[i] = server
  THEN [present |-> TRUE, items |-> servers.items]
  ELSE [present |-> TRUE, items |-> Append(servers.items, server)]

\* append(doc.Servers, server): a nil slice becomes a one-element slice.
AppendServer(servers, server) ==
  [present |-> TRUE, items |-> Append(servers.items, server)]

AddServer(server) ==
  /\ pc = "idle"
  /\ calls < MaxCalls
  /\ calls' = calls + 1
  /\ Len(doc.Servers.items) < MaxServers
  /\ doc' = [doc EXCEPT !.Servers = AppendServer(doc.Servers, server)]
  /\ call' = <<"AddServer", server>>
  /\ UNCHANGED <<opStamp, srvStamp, pc, result, checked, ctxDone>>

\* Documents built in memory before the helpers are used: the optional
\* children info, tags and external docs are all left out, or all set by
\* direct field assignment.
FullDoc ==
  [ZeroDoc EXCEPT
     !.OpenAPI = <<3, 0, 3>>,
     !.Info = [present |-> TRUE, title |-> "api", stamp |-> 0],
     !.Tags = [present |-> TRUE, items |-> <<[ok |-> TRUE, stamp |-> 0]>>],
     !.ExternalDocs = [present |-> TRUE, entries |-> <<>>, stamp |-> 0]]

GraphDocs == {[ZeroDoc EXCEPT !.OpenAPI = <<3, 0, 3>>], FullDoc}

Init ==
  /\ doc \in GraphDocs
  /\ opStamp = [o \in OpIds |-> 0]
  /\ srvStamp = [s \in SrvIds |-> 0]
  /\ call = <<"new">>
  /\ calls = 0
  /\ pc = "idle"
  /\ result = NoError
  /\ checked = <<>>
  /\ ctxDone = FALSE

Next ==
  \/ \E server \in SrvIds : AddServer(server)
  \/ \E recv \in {"doc", "nil"}, v \in Minors : WithMinorOpenAPIVersion(recv, v)
  \/ \E path \in PathNames, method \in Methods, operation \in OpIds \cup {0} :
       AddOperation(path, method, operation)

Spec == Init /\ [][Next]_vars

\* -------------------------------------------------------- T.UnmarshalJSON
DecodeError == <<"failed to unmarshal">>

\* What jsoninfo.UnmarshalStrictStruct can leave in the exported fields.
DecodedDocs ==
  { [ZeroDoc EXCEPT
       !.OpenAPI = v, !.Info = i, !.Paths = p, !.Servers = sv, !.Tags = t,
       !.ExternalDocs = e] :
      v \in VersionStrings,
      i \in {AbsentInfo, [present |-> TRUE, title |-> "api", stamp |-> 0]},
      p \in {AbsentPaths, EmptyPaths,
             [present |-> TRUE,
              items |-> [q \in {"/a"} |-> [stamp |-> 0, ops |-> [NoOps EXCEPT !["GET"] = 2]]]]},
      sv \in {AbsentList, [present |-> TRUE, items |-> <<2>>]},
      t \in {AbsentList, [present |-> TRUE, items |-> <<[ok |-> TRUE, stamp |-> 0]>>]},
      e \in {AbsentDocs, [present |-> TRUE, entries |-> <<>>, stamp |-> 0]} }

\* The decoder fills the exported fields with newly allocated nodes (their
\* stamps are the zero value) and leaves specMinorVersion as it was; err is
\* what it returned.  The version is propagated inside `if err != nil`.
UnmarshalJSON(data, err) ==
  /\ pc = "idle"
  /\ calls < MaxCalls
  /\ calls' = calls + 1
  /\ LET decoded == [data EXCEPT !.specMinorVersion = doc.specMinorVersion]
         newOps == [o \in OpIds |-> 0]
         newServers == [s \in SrvIds |-> 0]
         minorVersion == Minor(decoded.OpenAPI)
     IN IF err # NoError
        THEN /\ doc' = StampDocument(decoded, minorVersion)
             /\ opStamp' = OperationsWithMinor(newOps, decoded.Paths, minorVersion)
             /\ srvStamp' = ServersWithMinor(newServers, decoded.Servers, minorVersion)
        ELSE /\ doc' = decoded
             /\ opStamp' = newOps
             /\ srvStamp' = newServers
  /\ call' = <<"UnmarshalJSON", err>>
  /\ UNCHANGED <<pc, result, checked, ctxDone>>

InitDecode ==
  /\ doc = ZeroDoc
  /\ opStamp = [o \in OpIds |-> 0]
  /\ srvStamp = [s \in SrvIds |-> 0]
  /\ call = <<"new">>
  /\ calls = 0
  /\ pc = "idle"
  /\ result = NoError
  /\ checked = <<>>
  /\ ctxDone = FALSE

NextDecode ==
  \E data \in DecodedDocs, err \in {NoError, DecodeError} : UnmarshalJSON(data, err)

SpecDecode == InitDecode /\ [][NextDecode]_vars

\* ======================================= properties of the version stamps
\* Every node attached to the document carries the stamp v.
AllStamped(d, ops, servers, v) ==
  /\ d.Components.stamp = v
  /\ d.Info.present => d.Info.stamp = v
  /\ \A q \in DOMAIN d.Paths.items : d.Paths.items[q].stamp = v
  /\ \A o \in AttachedOps(d.Paths) : ops[o] = v
  /\ \A s \in AttachedServers(d.Servers) : servers[s] = v
  /\ \A i \in 1..Len(d.Tags.items) : d.Tags.items[i].stamp = v
  /\ d.ExternalDocs.present => d.ExternalDocs.stamp = v

\* The document with every stamp it holds erased: its shape and values.
Unstamped(d) ==
  [ OpenAPI |-> d.OpenAPI,
    Components |-> d.Components.items,
    Info |-> <<d.Info.present, d.Info.title>>,
    Paths |-> <<d.Paths.present, [q \in DOMAIN d.Paths.items |-> d.Paths.items[q].ops]>>,
    Security |-> d.Security,
    Servers |-> d.Servers,
    Tags |-> <<d.Tags.present, [i \in 1..Len(d.Tags.items) |-> d.Tags.items[i].ok]>>,
    ExternalDocs |-> <<d.ExternalDocs.present, d.ExternalDocs.entries>> ]

\* C2: after UnmarshalJSON has returned no error, the root's stamp and the
\* stamp of every present descendant equal the minor version parsed from the
\* decoded format-version string.
C2_DecodeStampsParsedMinor ==
  (call[1] = "UnmarshalJSON" /\ call[2] = NoError) =>
    /\ doc.specMinorVersion = Minor(doc.OpenAPI)
    /\ AllStamped(doc, opStamp, srvStamp, Minor(doc.OpenAPI))

\* C3: after any sequence of WithMinorOpenAPIVersion, AddOperation and
\* AddServer calls, every node attached to the document carries the root's
\* current stamp.
C3_AttachedNodesCarryRootStamp ==
  AllStamped(doc, opStamp, srvStamp, doc.specMinorVersion)

\* C4: WithMinorOpenAPIVersion(v) returns its receiver; on a document it sets
\* the root's stamp to v and leaves every attached descendant, the operations
\* attached earlier by AddOperation included, with stamp v, skipping absent
\* children; on a nil receiver it changes nothing.
C4_WithMinorStampsWholeDocument ==
  [][ (call'[1] = "WithMinorOpenAPIVersion") =>
        /\ call'[4] = call'[2]
        /\ IF call'[2] = "doc"
           THEN /\ doc'.specMinorVersion = call'[3]
                /\ AllStamped(doc', opStamp', srvStamp', call'[3])
                /\ Unstamped(doc') = Unstamped(doc)
           ELSE UNCHANGED <<doc, opStamp, srvStamp>> ]_vars

\* WithMinorOpenAPIVersion(1) has run on a document without info, tags and
\* external docs, holding an operation and a server attached under stamp 0.
C4_Witness ==
  /\ call = <<"WithMinorOpenAPIVersion", "doc", 1, "doc">>
  /\ ~doc.Info.present
  /\ ~doc.ExternalDocs.present
  /\ AttachedOps(doc.Paths) # {}
  /\ AttachedServers(doc.Servers) # {}
  /\ AllStamped(doc, opStamp, srvStamp, 1)

\* C7: AddOperation creates the path collection only when it is absent and
\* a path item only when the pattern has none; the other patterns' items, and
\* the item's stamp and operations under other methods, are kept; the slot of
\* the method holds the operation of the latest call.
C7_AddOperationUpsertsLastWriteWins ==
  [][ (call'[1] = "AddOperation") =>
        LET path == call'[2]
            method == call'[3]
            operation == call'[4]
            before == doc.Paths.items
            after == doc'.Paths.items
        IN /\ doc'.Paths.present
           /\ DOMAIN after = DOMAIN before \cup {path}
           /\ \A q \in DOMAIN before \ {path} : after[q] = before[q]
           /\ path \in DOMAIN before =>
                /\ after[path].stamp = before[path].stamp
                /\ \A m \in Methods \ {method} : after[path].ops[m] = before[path].ops[m]
           /\ path \notin DOMAIN before =>
                \A m \in Methods \ {method} : after[path].ops[m] = 0
           /\ after[path].ops[method] = operation
           /\ [doc' EXCEPT !.Paths = doc.Paths] = doc ]_vars

\* A second AddOperation on the same pattern and method has replaced
\* operation 1 by operation 2, with the other method's operation and the
\* other pattern's item still in place.
C7_Witness ==
  /\ call = <<"AddOperation", "/a", "GET", 2, 1>>
  /\ DOMAIN doc.Paths.items = {"/a", "/b"}
  /\ doc.Paths.items["/a"].ops["GET"] = 2
  /\ doc.Paths.items["/a"].ops["POST"] # 0

\* C8: AddServer puts the server at the end of the list, creating the list
\* when it is absent; the earlier elements keep value and order, the length
\* grows by one also when the server is already in the list, and nothing
\* else of the document changes.
C8_AddServerAppends ==
  [][ (call'[1] = "AddServer") =>
        LET before == doc.Servers.items
            after == doc'.Servers.items
        IN /\ doc'.Servers.present
           /\ Len(after) = Len(before) + 1
           /\ after[Len(after)] = call'[2]
           /\ \A i \in 1..Len(before) : after[i] = before[i]
           /\ [doc' EXCEPT !.Servers = doc.Servers] = doc
           /\ UNCHANGED <<opStamp, srvStamp>> ]_vars

\* AddServer has appended a server that was already the first element.
C8_Witness ==
  /\ call[1] = "AddServer"
  /\ Len(doc.Servers.items) = 2
  /\ doc.Servers.items[1] = doc.Servers.items[2]

\* ============================================= properties of T.Validate
FixedOrder ==
  <<"openapi", "components", "info", "paths",
    "security", "servers", "tags", "externalDocs">>

\* The error a step reports on a document, NoError when the step passes.
StepError(d, step) ==
  CASE step = "openapi" -> CheckOpenAPI(d)
    [] step = "components" -> CheckComponents(d)
    [] step = "info" -> CheckInfo(d)
    [] step = "paths" -> CheckPaths(d)
    [] step = "security" -> CheckSecurity(d)
    [] step = "servers" -> CheckServers(d)
    [] step = "tags" -> CheckTags(d)
    [] step = "externalDocs" -> CheckExternalDocs(d)

FailingSteps(d) == {k \in 1..Len(FixedOrder) : StepError(d, FixedOrder[k]) # NoError}

EarliestFailing(d) == CHOOSE k \in FailingSteps(d) : \A j \in FailingSteps(d) : k <= j

Returned == pc = "done"

\* C1: Validate runs its steps in the fixed order openapi, components, info,
\* paths, security, servers, tags, external docs and stops at the first
\* failing one: the returned error is that of the earliest failing step, the
\* steps after it are never run, and nil is returned only after all eight.
C1_FirstFailureInFixedOrder ==
  Returned =>
    IF FailingSteps(doc) = {}
    THEN result = NoError /\ checked = FixedOrder
    ELSE /\ result = StepError(doc, FixedOrder[EarliestFailing(doc)])
         /\ checked = SubSeq(FixedOrder, 1, EarliestFailing(doc))

\* A document invalid in both info and paths has returned the info failure.
C1_Witness ==
  /\ Returned
  /\ CheckInfo(doc) # NoError
  /\ CheckPaths(doc) # NoError
  /\ result[1] = "invalid info"
  /\ checked = <<"openapi", "components", "info">>

RequiredPresent(d) ==
  /\ d.OpenAPI # <<>>
  /\ VersionValidate(d.OpenAPI) = NoError
  /\ d.Components.items = <<>>
  /\ d.Info.present
  /\ d.Paths.present

\* C5 as stated: with a valid format-version, an empty component registry,
\* info present and paths present, Validate returns nil.
C5_PresentRequiredFieldsSucceed ==
  (Returned /\ RequiredPresent(doc)) => result = NoError

OptionalValid(d) ==
  /\ d.Security.present => SecurityValidate(d.Security) = NoError
  /\ d.Servers.present => ServersValidate(d.Servers) = NoError
  /\ d.Tags.present => TagsValidate(d.Tags) = NoError
  /\ d.ExternalDocs.present => ExternalDocsValidate(d.ExternalDocs) = NoError

\* C5 amended: with a valid format-version, an empty component registry, info
\* present and passing its own validation, paths present (possibly empty) and
\* passing its own validation, and every optional field that is present
\* passing its own validation, Validate returns nil.
C5_ValidDocumentSucceeds ==
  ( /\ Returned
    /\ RequiredPresent(doc)
    /\ InfoValidate(doc.Info) = NoError
    /\ PathsValidate(doc.Paths) = NoError
    /\ OptionalValid(doc) ) => result = NoError

\* Validate has returned nil for a document with info and an empty paths map.
C5_Witness ==
  /\ Returned
  /\ RequiredPresent(doc)
  /\ InfoValidate(doc.Info) = NoError
  /\ doc.Paths.items = NoItems
  /\ OptionalValid(doc)
  /\ result = NoError

AbsentOrEmpty(d) ==
  /\ d.Security.items = <<>>
  /\ d.Servers.items = <<>>
  /\ d.Tags.items = <<>>
  /\ d.ExternalDocs.entries = <<>>

FirstFourPass(d) ==
  \A k \in 1..4 : StepError(d, FixedOrder[k]) = NoError

\* C6: when the first four steps pass and each of security, servers, tags and
\* external docs is absent or present but empty, Validate returns nil.
C6_OptionalAbsentOrEmptyNeverFails ==
  (Returned /\ FirstFourPass(doc) /\ AbsentOrEmpty(doc)) => result = NoError

\* Validate has returned nil with absent security and servers and with
\* present, empty tags and external docs.
C6_Witness ==
  /\ Returned
  /\ FirstFourPass(doc)
  /\ AbsentOrEmpty(doc)
  /\ ~doc.Security.present
  /\ ~doc.Servers.present
  /\ doc.Tags.present
  /\ doc.ExternalDocs.present
  /\ result = NoError

\* Validate has returned nil with present, empty security and servers and
\* with absent tags and external docs.
C6_WitnessEmptyLists ==
  /\ Returned
  /\ FirstFourPass(doc)
  /\ AbsentOrEmpty(doc)
  /\ doc.Security.present
  /\ doc.Servers.present
  /\ ~doc.Tags.present
  /\ ~doc.ExternalDocs.present
  /\ result = NoError

CancellationError == <<"context canceled">>

\* C9: when the context is cancelled before or between the top-level steps,
\* Validate returns the cancellation error, never nil nor a step's error.
C9_CancellationAborts ==
  (Returned /\ ctxDone) => result = CancellationError

StepLabel(step) ==
  CASE step = "openapi" -> "invalid openapi value"
    [] step = "components" -> "invalid components"
    [] step = "info" -> "invalid info"
    [] step = "paths" -> "invalid paths"
    [] step = "security" -> "invalid security"
    [] step = "servers" -> "invalid servers"
    [] step = "tags" -> "invalid tags"
    [] step = "externalDocs" -> "invalid external docs"

\* What the failing step's own check reported, before any attribution.
Cause(d, step) ==
  CASE step = "openapi" ->
         IF d.OpenAPI = <<>> THEN <<"must be a non-empty string">>
         ELSE VersionValidate(d.OpenAPI)
    [] step = "components" -> ComponentsValidate(d.Components)
    [] step = "info" ->
         IF d.Info.present THEN InfoValidate(d.Info) ELSE <<"must be an object">>
    [] step = "paths" ->
         IF d.Paths.present THEN PathsValidate(d.Paths) ELSE <<"must be an object">>
    [] step = "security" -> SecurityValidate(d.Security)
    [] step = "servers" -> ServersValidate(d.Servers)
    [] step = "tags" -> TagsValidate(d.Tags)
    [] step = "externalDocs" -> ExternalDocsValidate(d.ExternalDocs)

\* C10: an error returned by Validate is the label of the step that failed
\* (the last step run) followed by that step's cause, unchanged: exactly one
\* attribution layer, and the cause is neither dropped nor replaced.
C10_OneAttributionLayer ==
  (Returned /\ result # NoError) =>
    LET failed == checked[Len(checked)] IN
      /\ result[1] = StepLabel(failed)
      /\ Cause(doc, failed) # NoError
      /\ SubSeq(result, 2, Len(result)) = Cause(doc, failed)

\* Validate has returned a paths failure whose cause has two layers of its own.
C10_Witness ==
  /\ Returned
  /\ result = <<"invalid paths", "invalid operation", "value of responses must be an object">>

====
